---------------------------- MODULE Spec2Model ----------------------------
(***************************************************************************)
(* VolleyBatch ranking page: the document-ready handlers of src/script.js  *)
(* (lookup-table flags, lines 1-77; algorithmic flags, lines 79-138) and   *)
(* of src/unnamed/part_000 (no sort, no flags).  Each handler starts a     *)
(* $.when join over two $.getJSON fetches; its done callback formats the   *)
(* timestamp, empties the table body, sorts the teams in place (script.js  *)
(* only) and appends one row per team.                                     *)
(*                                                                         *)
(* JavaScript strings are sequences of code points (integers).  A JS value *)
(* that may be a string, undefined or null is a record [type, chars].      *)
(* elo is held in tenths (14000 is 1400.0).                                *)
(***************************************************************************)
EXTENDS Integers, Sequences, FiniteSets, TLC

\* ------------------------------------------------------------ bounds
\* Longest teams.json array the environment serves.
MaxTeams == 3

\* ------------------------------------------------------------ strings

Lower == <<"a","b","c","d","e","f","g","h","i","j","k","l","m",
           "n","o","p","q","r","s","t","u","v","w","x","y","z">>
Upper == <<"A","B","C","D","E","F","G","H","I","J","K","L","M",
           "N","O","P","Q","R","S","T","U","V","W","X","Y","Z">>
Digit == <<"0","1","2","3","4","5","6","7","8","9">>

\* Code point of a character of the alphabet the model writes strings in.
Ord(ch) ==
    IF \E i \in 1..26 : Lower[i] = ch THEN 96 + (CHOOSE i \in 1..26 : Lower[i] = ch)
    ELSE IF \E i \in 1..26 : Upper[i] = ch THEN 64 + (CHOOSE i \in 1..26 : Upper[i] = ch)
    ELSE IF \E i \in 1..10 : Digit[i] = ch THEN 47 + (CHOOSE i \in 1..10 : Digit[i] = ch)
    ELSE CASE ch = " " -> 32 [] ch = "(" -> 40 [] ch = ")" -> 41 [] ch = "+" -> 43
           [] ch = "." -> 46 [] ch = "[" -> 91 [] ch = "]" -> 93 [] ch = "_" -> 95
           [] ch = "{" -> 123 [] ch = "}" -> 125

\* A string literal, written as its characters.
Chars(t) == [i \in 1..Len(t) |-> Ord(t[i])]

Str(t)    == [type |-> "string", chars |-> Chars(t)]
Undefined == [type |-> "undefined", chars |-> <<>>]
Null      == [type |-> "null", chars |-> <<>>]

\* !v for a value that is a string, undefined or null.
Falsy(v) == v.type # "string" \/ v.chars = <<>>

Space      == 32
Underscore == 95

\* s.split('_')[0]: the part of s before its first '_', all of s without one.
RECURSIVE SplitFirst(_)
SplitFirst(s) ==
    IF s = <<>> \/ Head(s) = Underscore THEN <<>>
    ELSE <<Head(s)>> \o SplitFirst(Tail(s))

\* String.prototype.toUpperCase on one code point of the alphabet.
UpperCp(c) == IF c >= 97 /\ c <= 122 THEN c - 32 ELSE c

toUpperCase(s) == [i \in 1..Len(s) |-> UpperCp(s[i])]

\* Decimal digits of a natural number.
RECURSIVE DigitsOf(_)
DigitsOf(n) == IF n < 10 THEN <<48 + n>> ELSE DigitsOf(n \div 10) \o <<48 + (n % 10)>>

\* ------------------------------------------------------------ flags, lookup table

\* The two 4-byte glyph halves as the file holds them: each value of the
\* table is 8 code points, F0 9F 87 xx read as windows-1252, twice.
TableGlyph(b1, b2) == <<240, 376, 8225, b1, 240, 376, 8225, b2>>

countryFlagsKeys ==
    { Chars(<<"i","t","a">>), Chars(<<"p","o","l">>), Chars(<<"r","u","s">>),
      Chars(<<"t","u","r">>), Chars(<<"b","r","a">>), Chars(<<"a","r","g">>),
      Chars(<<"g","e","r">>), Chars(<<"f","r","a">>), Chars(<<"b","e","l">>),
      Chars(<<"j","p","n">>), Chars(<<"q","a","t">>), Chars(<<"i","r","n">>),
      Chars(<<"s","v","n">>), Chars(<<"p","r","t">>), Chars(<<"c","z","e">>),
      Chars(<<"g","r","e">>), Chars(<<"h","r","v">>), Chars(<<"b","u","l">>),
      Chars(<<"s","r","b">>) }

countryFlags(k) ==
    CASE k = Chars(<<"i","t","a">>) -> TableGlyph(174, 185)
      [] k = Chars(<<"p","o","l">>) -> TableGlyph(181, 177)
      [] k = Chars(<<"r","u","s">>) -> TableGlyph(183, 186)
      [] k = Chars(<<"t","u","r">>) -> TableGlyph(185, 183)
      [] k = Chars(<<"b","r","a">>) -> TableGlyph(167, 183)
      [] k = Chars(<<"a","r","g">>) -> TableGlyph(166, 183)
      [] k = Chars(<<"g","e","r">>) -> TableGlyph(169, 170)
      [] k = Chars(<<"f","r","a">>) -> TableGlyph(171, 183)
      [] k = Chars(<<"b","e","l">>) -> TableGlyph(167, 170)
      [] k = Chars(<<"j","p","n">>) -> TableGlyph(175, 181)
      [] k = Chars(<<"q","a","t">>) -> TableGlyph(182, 166)
      [] k = Chars(<<"i","r","n">>) -> TableGlyph(174, 183)
      [] k = Chars(<<"s","v","n">>) -> TableGlyph(184, 174)
      [] k = Chars(<<"p","r","t">>) -> TableGlyph(181, 185)
      [] k = Chars(<<"c","z","e">>) -> TableGlyph(168, 191)
      [] k = Chars(<<"g","r","e">>) -> TableGlyph(172, 183)
      [] k = Chars(<<"h","r","v">>) -> TableGlyph(173, 183)
      [] k = Chars(<<"b","u","l">>) -> TableGlyph(167, 172)
      [] k = Chars(<<"s","r","b">>) -> TableGlyph(183, 184)

\* countryFlags is an object literal: a property read that finds no own key
\* goes on to Object.prototype, whose properties are these.
ObjectPrototypeKeys ==
    { Chars(<<"c","o","n","s","t","r","u","c","t","o","r">>),
      Chars(<<"_","_","d","e","f","i","n","e","G","e","t","t","e","r","_","_">>),
      Chars(<<"_","_","d","e","f","i","n","e","S","e","t","t","e","r","_","_">>),
      Chars(<<"h","a","s","O","w","n","P","r","o","p","e","r","t","y">>),
      Chars(<<"_","_","l","o","o","k","u","p","G","e","t","t","e","r","_","_">>),
      Chars(<<"_","_","l","o","o","k","u","p","S","e","t","t","e","r","_","_">>),
      Chars(<<"i","s","P","r","o","t","o","t","y","p","e","O","f">>),
      Chars(<<"p","r","o","p","e","r","t","y","I","s","E","n","u","m","e","r","a","b","l","e">>),
      Chars(<<"t","o","S","t","r","i","n","g">>),
      Chars(<<"v","a","l","u","e","O","f">>),
      Chars(<<"_","_","p","r","o","t","o","_","_">>),
      Chars(<<"t","o","L","o","c","a","l","e","S","t","r","i","n","g">>) }

\* The text an inherited property becomes under  + ' ' : a native function's
\* source text, or "[object Object]" for Object.prototype itself.
InheritedText(k) ==
    IF k = Chars(<<"_","_","p","r","o","t","o","_","_">>)
    THEN Chars(<<"[","o","b","j","e","c","t"," ","O","b","j","e","c","t","]">>)
    ELSE Chars(<<"f","u","n","c","t","i","o","n"," ">>)
         \o (IF k = Chars(<<"c","o","n","s","t","r","u","c","t","o","r">>)
             THEN Chars(<<"O","b","j","e","c","t">>) ELSE k)
         \o Chars(<<"(",")"," ","{"," ","[","n","a","t","i","v","e"," ",
                    "c","o","d","e","]"," ","}">>)

\* getCountryFlag(teamId)
getCountryFlag(teamId) ==
    IF Falsy(teamId) THEN <<>>
    ELSE LET countryCode == SplitFirst(teamId.chars)
         IN  IF countryCode \in countryFlagsKeys
             THEN countryFlags(countryCode) \o <<Space>>
             ELSE IF countryCode \in ObjectPrototypeKeys
             THEN InheritedText(countryCode) \o <<Space>>
             ELSE <<>>

\* ------------------------------------------------------------ flags, algorithmic

\* const base = 0x1F1E6
base == 127462

\* countryCodeToFlag(code)
countryCodeToFlag(code) ==
    IF Falsy(code) \/ Len(code.chars) # 2 THEN <<>>
    ELSE LET chars == toUpperCase(code.chars)
         IN  << base + chars[1] - 65, base + chars[2] - 65 >>

\* ------------------------------------------------------------ timestamp

MonthNames == <<"January", "February", "March", "April", "May", "June", "July",
                "August", "September", "October", "November", "December">>

\* The value of the global last_update and of the text of #stats-last-update
\* before any render.
NoDate == [kind |-> "undefined", day |-> <<>>, month |-> "", year |-> <<>>,
           hour |-> <<>>, minute |-> <<>>]

InvalidDate == [NoDate EXCEPT !.kind = "Invalid Date"]

\* Two digits, zero padded.
TwoDigit(n) == <<48 + (n \div 10), 48 + (n % 10)>>

\* new Date(stats.last_update).toLocaleString('en-GB', options): day numeric,
\* month long, year numeric, hour and minute 2-digit on a 24-hour clock; the
\* seconds are not shown.  A string that is no date formats as Invalid Date.
FormatLastUpdate(stats) ==
    IF stats.kind # "iso" THEN InvalidDate
    ELSE [kind   |-> "formatted",
          day    |-> DigitsOf(stats.day),
          month  |-> MonthNames[stats.month],
          year   |-> DigitsOf(stats.year),
          hour   |-> TwoDigit(stats.hour),
          minute |-> TwoDigit(stats.minute)]

\* $('#stats-last-update').text(`Last update: ${last_update}`)
TimestampText(formatted) == [label |-> "Last update: ", value |-> formatted]

\* ------------------------------------------------------------ sort

Front(s) == SubSeq(s, 1, Len(s) - 1)
Last(s)  == s[Len(s)]

\* A comparator that answers only 1 or -1: equal ratings are "out of order".
CompareEloSign(a, b) == IF b.elo >= a.elo THEN 1 ELSE -1

\* The operands swapped: ascending order.
CompareEloAscending(a, b) == a.elo - b.elo

\* (a, b) => b.elo - a.elo
CompareElo(a, b) == b.elo - a.elo

\* One step of a stable sort: x goes behind every element that the
\* comparator does not order after it.
RECURSIVE InsertSorted(_, _)
InsertSorted(s, x) ==
    IF s = <<>> THEN <<x>>
    ELSE IF CompareElo(Last(s), x) > 0
         THEN InsertSorted(Front(s), x) \o <<Last(s)>>
         ELSE s \o <<x>>

\* teams.sort(compare): Array.prototype.sort, stable (ECMAScript 2019).
RECURSIVE SortTeams(_)
SortTeams(a) ==
    IF a = <<>> THEN <<>> ELSE InsertSorted(SortTeams(Front(a)), Last(a))

\* ------------------------------------------------------------ rows

\* The rank without the + 1.
RankZeroBased(index) == index

\* ${index + 1}, index counted from 0
Rank(index) == index + 1

\* parseFloat(team.elo).toFixed(1), elo in tenths
toFixed1(elo) == DigitsOf(elo \div 10) \o <<46, 48 + (elo % 10)>>

\* ${team.elo}: a number as JavaScript prints it, elo in tenths
NumberToString(elo) ==
    DigitsOf(elo \div 10) \o (IF elo % 10 = 0 THEN <<>> ELSE <<46, 48 + (elo % 10)>>)

\* The row of the lookup-table handler.
RowLookup(team, index) ==
    [rank   |-> Rank(index),
     team   |-> getCountryFlag(team.id) \o team.name,
     rating |-> toFixed1(team.elo)]

\* The row of the algorithmic handler.
RowAlgo(team, index) ==
    [rank   |-> Rank(index),
     team   |-> countryCodeToFlag(team.country_iso2) \o <<Space>> \o team.name,
     rating |-> toFixed1(team.elo)]

\* The row of part_000's handler.
RowPlain(team, index) ==
    [rank      |-> Rank(index),
     change    |-> Chars(<<"+","1","0">>),
     team      |-> team.name,
     country   |-> Chars(<<"I","t","a","l","y">>),
     rating    |-> NumberToString(team.elo),
     plusMinus |-> Chars(<<"+","2",".","0">>)]

\* The table body not cleared.
KeepTbody(body) == body

\* $tbody.empty()
EmptyTbody(body) == <<>>

\* teams.forEach((team, index) => $tbody.append(row)) of each handler.
AppendLookup(body, arr) == body \o [i \in 1..Len(arr) |-> RowLookup(arr[i], i - 1)]
AppendAlgo(body, arr)   == body \o [i \in 1..Len(arr) |-> RowAlgo(arr[i], i - 1)]
AppendPlain(body, arr)  == body \o [i \in 1..Len(arr) |-> RowPlain(arr[i], i - 1)]

\* ------------------------------------------------------------ done callbacks
\* Each gives what the callback leaves: the teams array (sorted in place or
\* not), the global last_update, the timestamp text and the table body.

DoneLookup(arr, stats, body) ==
    LET formatted == FormatLastUpdate(stats)
        sorted    == SortTeams(arr)
    IN  [teams |-> sorted, last_update |-> formatted,
         tsText |-> TimestampText(formatted),
         tbody |-> AppendLookup(EmptyTbody(body), sorted)]

DoneAlgo(arr, stats, body) ==
    LET formatted == FormatLastUpdate(stats)
        sorted    == SortTeams(arr)
    IN  [teams |-> sorted, last_update |-> formatted,
         tsText |-> TimestampText(formatted),
         tbody |-> AppendAlgo(EmptyTbody(body), sorted)]

DonePlain(arr, stats, body) ==
    LET formatted == FormatLastUpdate(stats)
    IN  [teams |-> arr, last_update |-> formatted,
         tsText |-> TimestampText(formatted),
         tbody |-> AppendPlain(EmptyTbody(body), arr)]

DoneCallback(h, arr, stats, body) ==
    CASE h = "lookup" -> DoneLookup(arr, stats, body)
      [] h = "algo"   -> DoneAlgo(arr, stats, body)
      [] h = "plain"  -> DonePlain(arr, stats, body)

\* ------------------------------------------------------------ the join

\* A join that resolves on the first response.
WhenResolvedEarly(left) == left <= 1

\* $.when(a, b): the done callbacks run when no fetch is left to resolve.
WhenResolved(left) == left = 0

\* A fail callback that also clears the table.
FailCallbackClears(log, lu, ts, body) ==
    [errorLog |-> log + 1, last_update |-> lu, tsText |-> ts, tbody |-> <<>>]

\* .fail(function() { console.error("Failed to load JSON files."); })
\* gives the error log count, the global last_update, the timestamp text
\* and the table body it leaves.
FailCallback(log, lu, ts, body) ==
    [errorLog |-> log + 1, last_update |-> lu, tsText |-> ts, tbody |-> body]

\* ------------------------------------------------------------ environment

TeamA == [id |-> Str(<<"i","t","a","_","1">>), name |-> Chars(<<"A">>),
          elo |-> 14000, country_iso2 |-> Str(<<"I","T">>)]
TeamB == [id |-> Str(<<"x","y","z","_","2">>), name |-> Chars(<<"B">>),
          elo |-> 16000, country_iso2 |-> Undefined]
TeamC == [id |-> Undefined, name |-> Chars(<<"C">>),
          elo |-> 16000, country_iso2 |-> Str(<<"p","l">>)]

\* The records teams.json is made of.
TeamPool == {TeamA, TeamB, TeamC}

\* Every teams.json of at most MaxTeams records, repeats allowed.
TeamsDocuments == UNION {[1..n -> TeamPool] : n \in 0..MaxTeams}

NoStats == [kind |-> "undefined", year |-> 0, month |-> 0, day |-> 0,
            hour |-> 0, minute |-> 0, second |-> 0]

\* The stats.json documents: "2025-10-29T20:22:00", "2026-01-05T07:03:09"
\* and one whose last_update is no date.
StatsDocuments ==
    { [kind |-> "iso", year |-> 2025, month |-> 10, day |-> 29,
       hour |-> 20, minute |-> 22, second |-> 0],
      [kind |-> "iso", year |-> 2026, month |-> 1, day |-> 5,
       hour |-> 7, minute |-> 3, second |-> 9],
      [NoStats EXCEPT !.kind = "malformed"] }

\* A row the page's markup may hold before any render.
PlaceholderRow == [rank |-> 0, team |-> <<>>, rating |-> <<>>]

Handlers == {"lookup", "algo", "plain"}
Files    == {"teams", "stats"}

\* The handlers the loaded script registers, in registration order.
HandlersOf(p) ==
    CASE p = "script.js" -> {"lookup", "algo"}
      [] p = "part_000"  -> {"plain"}
      [] OTHER           -> {}

\* The strings and non-strings the flag functions are applied to.
FlagInputs ==
    {Undefined, Null, Str(<<>>)}
    \cup {[type |-> "string", chars |-> k] : k \in countryFlagsKeys}
    \cup {[type |-> "string", chars |-> k \o Chars(<<"_","7">>)] : k \in countryFlagsKeys}
    \cup {[type |-> "string", chars |-> k \o Chars(<<"_","x">>)] : k \in ObjectPrototypeKeys \ {Chars(<<"_","_","p","r","o","t","o","_","_">>)}}
    \cup {[type |-> "string", chars |-> k] : k \in {Chars(<<"t","o","S","t","r","i","n","g">>)}}
    \cup { Str(<<"x","y","z">>), Str(<<"x","y","z","_","3">>), Str(<<"_","i","t","a">>),
           Str(<<"I","T","A","_","1">>), Str(<<"i","t","_","1">>), Str(<<"i","t","a","l","_","1">>),
           Str(<<"I","T">>), Str(<<"i","t">>), Str(<<"I","t">>), Str(<<"P","L">>),
           Str(<<"A","A">>), Str(<<"Z","Z">>), Str(<<"a","z">>), Str(<<"I","T","A">>),
           Str(<<"I">>), Str(<<"1","2">>), Str(<<"1","A">>), Str(<<"A","1">>),
           Str(<<"_","_">>), Str(<<"I","T","A","L">>) }

\* ------------------------------------------------------------ state

VARIABLES
    page,        \* the script the page loads
    teamsJson,   \* teams.json as the server holds it
    statsJson,   \* stats.json as the server holds it
    pc,          \* per handler: absent, registered, started
    fetch,       \* per handler and file: idle, pending, ok, failed
    remaining,   \* per handler: fetches $.when still waits for
    join,        \* per handler: none, pending, resolved, rejected
    teams,       \* per handler: the array teamsData[0]
    stats,       \* per handler: the object statsData[0]
    last_update, \* the global last_update
    tsText,      \* text of #stats-last-update
    tbody,       \* rows of #ranking-table-body
    input,       \* history: teams and stats as each handler received them
    issued,      \* history: per handler and file, requests sent
    errorLog,    \* history: per handler, console.error calls
    rendered,    \* history: per handler, runs of the done callback
    arrival,     \* history: per handler, files in order of arrival
    shown,       \* history: per handler, what its render left on the page
    lastRender,  \* history: the handler that rendered last
    flagFn,      \* flag function applied: none, getCountryFlag, countryCodeToFlag
    flagInput,   \* its argument
    flagOutput   \* its result

vars == <<page, teamsJson, statsJson, pc, fetch, remaining, join, teams, stats,
          last_update, tsText, tbody, input, issued, errorLog, rendered, arrival,
          shown, lastRender, flagFn, flagInput, flagOutput>>

envVars  == <<page, teamsJson, statsJson>>
flagVars == <<flagFn, flagInput, flagOutput>>
domVars  == <<last_update, tsText, tbody>>

NoTimestampText == [label |-> "", value |-> NoDate]

InitPage(p) ==
    /\ page = p
    /\ pc = [h \in Handlers |-> IF h \in HandlersOf(p) THEN "registered" ELSE "absent"]
    /\ fetch = [h \in Handlers |-> [f \in Files |-> "idle"]]
    /\ remaining = [h \in Handlers |-> 0]
    /\ join = [h \in Handlers |-> "none"]
    /\ teams = [h \in Handlers |-> <<>>]
    /\ stats = [h \in Handlers |-> NoStats]
    /\ last_update = NoDate
    /\ tsText = NoTimestampText
    /\ input = [h \in Handlers |-> [teams |-> <<>>, stats |-> NoStats]]
    /\ issued = [h \in Handlers |-> [f \in Files |-> 0]]
    /\ errorLog = [h \in Handlers |-> 0]
    /\ rendered = [h \in Handlers |-> 0]
    /\ arrival = [h \in Handlers |-> <<>>]
    /\ shown = [h \in Handlers |-> [tsText |-> NoTimestampText, tbody |-> <<>>]]
    /\ lastRender = "none"

Init ==
    /\ \E p \in {"script.js", "part_000"} : InitPage(p)
    /\ teamsJson \in TeamsDocuments
    /\ statsJson \in StatsDocuments
    /\ tbody \in {<<>>, <<PlaceholderRow>>}
    /\ flagFn = "none"
    /\ flagInput = Undefined
    /\ flagOutput = <<>>

\* $(document).ready(function() { $.when($.getJSON(teams), $.getJSON(stats)) ... })
\* Handlers run in the order they were registered.
DocumentReady(h) ==
    /\ pc[h] = "registered"
    /\ h = "algo" => pc["lookup"] # "registered"
    /\ pc' = [pc EXCEPT ![h] = "started"]
    /\ fetch' = [fetch EXCEPT ![h] = [f \in Files |-> "pending"]]
    /\ issued' = [issued EXCEPT ![h] = [f \in Files |-> @[f] + 1]]
    /\ remaining' = [remaining EXCEPT ![h] = Cardinality(Files)]
    /\ join' = [join EXCEPT ![h] = "pending"]
    /\ UNCHANGED <<envVars, flagVars, domVars, teams, stats, input, errorLog,
                   rendered, arrival, shown, lastRender>>

\* A response arrives and parses; when it is the last one the join waits
\* for, the done callback runs in the same turn.
FetchSucceeds(h, f) ==
    /\ fetch[h][f] = "pending"
    /\ fetch' = [fetch EXCEPT ![h][f] = "ok"]
    /\ arrival' = [arrival EXCEPT ![h] = Append(@, f)]
    /\ input' = [input EXCEPT ![h][f] = IF f = "teams" THEN teamsJson ELSE statsJson]
    /\ LET arr  == IF f = "teams" THEN teamsJson ELSE teams[h]
           st   == IF f = "stats" THEN statsJson ELSE stats[h]
           left == remaining[h] - 1
           out  == DoneCallback(h, arr, st, tbody)
       IN  /\ remaining' = [remaining EXCEPT ![h] = left]
           /\ stats' = [stats EXCEPT ![h] = st]
           /\ IF join[h] = "pending" /\ WhenResolved(left)
              THEN /\ join' = [join EXCEPT ![h] = "resolved"]
                   /\ teams' = [teams EXCEPT ![h] = out.teams]
                   /\ last_update' = out.last_update
                   /\ tsText' = out.tsText
                   /\ tbody' = out.tbody
                   /\ rendered' = [rendered EXCEPT ![h] = @ + 1]
                   /\ shown' = [shown EXCEPT ![h] = [tsText |-> out.tsText, tbody |-> out.tbody]]
                   /\ lastRender' = h
              ELSE /\ teams' = [teams EXCEPT ![h] = arr]
                   /\ UNCHANGED <<join, domVars, rendered, shown, lastRender>>
    /\ UNCHANGED <<envVars, flagVars, pc, issued, errorLog>>

\* A request fails (network, status, or JSON that does not parse): the join
\* is rejected at once and the fail callback runs, once per join.
FetchFails(h, f) ==
    /\ fetch[h][f] = "pending"
    /\ fetch' = [fetch EXCEPT ![h][f] = "failed"]
    /\ arrival' = [arrival EXCEPT ![h] = Append(@, f)]
    /\ IF join[h] = "pending"
       THEN LET out == FailCallback(errorLog[h], last_update, tsText, tbody)
            IN  /\ join' = [join EXCEPT ![h] = "rejected"]
                /\ errorLog' = [errorLog EXCEPT ![h] = out.errorLog]
                /\ last_update' = out.last_update
                /\ tsText' = out.tsText
                /\ tbody' = out.tbody
       ELSE UNCHANGED <<join, errorLog, domVars>>
    /\ UNCHANGED <<envVars, flagVars, pc, remaining, teams, stats, input, issued,
                   rendered, shown, lastRender>>

Next ==
    \/ \E h \in Handlers : DocumentReady(h)
    \/ \E h \in Handlers, f \in Files : FetchSucceeds(h, f)
    \/ \E h \in Handlers, f \in Files : FetchFails(h, f)

Spec == Init /\ [][Next]_vars

\* ------------------------------------------------------------ the flag functions alone

InitFlags ==
    /\ InitPage("none")
    /\ teamsJson = <<>>
    /\ statsJson = NoStats
    /\ tbody = <<>>
    /\ flagFn = "none"
    /\ flagInput \in FlagInputs
    /\ flagOutput = <<>>

CallGetCountryFlag ==
    /\ flagFn = "none"
    /\ flagFn' = "getCountryFlag"
    /\ flagOutput' = getCountryFlag(flagInput)
    /\ UNCHANGED <<envVars, domVars, flagInput, pc, fetch, remaining, join, teams,
                   stats, input, issued, errorLog, rendered, arrival, shown, lastRender>>

CallCountryCodeToFlag ==
    /\ flagFn = "none"
    /\ flagFn' = "countryCodeToFlag"
    /\ flagOutput' = countryCodeToFlag(flagInput)
    /\ UNCHANGED <<envVars, domVars, flagInput, pc, fetch, remaining, join, teams,
                   stats, input, issued, errorLog, rendered, arrival, shown, lastRender>>

NextFlags == CallGetCountryFlag \/ CallCountryCodeToFlag

SpecFlags == InitFlags /\ [][NextFlags]_vars

\* ------------------------------------------------------------ properties

ScriptHandlers == {"lookup", "algo"}

\* A natural number from its decimal digits.
RECURSIVE ParseNat(_)
ParseNat(s) == IF s = <<>> THEN 0 ELSE 10 * ParseNat(Front(s)) + (Last(s) - 48)

\* The rating a rating cell shows, in tenths: "1400.0", "1400.5" or "1400".
RatingTenths(cell) ==
    IF Len(cell) >= 2 /\ cell[Len(cell) - 1] = 46
    THEN 10 * ParseNat(SubSeq(cell, 1, Len(cell) - 2)) + (Last(cell) - 48)
    ELSE 10 * ParseNat(cell)

\* The bijections of 1..n.
Bijections(n) == {p \in [1..n -> 1..n] : \A i, j \in 1..n : p[i] = p[j] => i = j}

\* The row shows the team: its name ends the team cell and its rating is
\* the rating cell.
Shows(row, team) ==
    /\ Len(row.team) >= Len(team.name)
    /\ SubSeq(row.team, Len(row.team) - Len(team.name) + 1, Len(row.team)) = team.name
    /\ RatingTenths(row.rating) = team.elo

\* The team cell a handler writes for a team.
TeamCell(h, team) ==
    CASE h = "lookup" -> RowLookup(team, 0).team
      [] h = "algo"   -> RowAlgo(team, 0).team
      [] h = "plain"  -> RowPlain(team, 0).team

\* C1: after a render, by any handler of script.js or of part_000, the rows
\* of the table body are in non-increasing elo order: each row's rating is
\* at least the rating of the row below it.
C1_RowsNonIncreasing ==
    lastRender # "none" =>
        \A i \in 1..(Len(tbody) - 1) :
            RatingTenths(tbody[i].rating) >= RatingTenths(tbody[i + 1].rating)

\* C2: a render of n team records leaves exactly n rows, ranked 1, 2, ..., n
\* from the top, and the rows show the input records one to one; for n = 0
\* the table body is empty.
C2_RowsMatchInput ==
    \A h \in Handlers :
        lastRender = h =>
            LET n == Len(input[h].teams)
            IN  /\ Len(tbody) = n
                /\ \A i \in 1..n : tbody[i].rank = i
                /\ \E p \in Bijections(n) :
                       \A i \in 1..n : Shows(tbody[i], input[h].teams[p[i]])
                /\ n = 0 => tbody = <<>>

\* C2 witness: a render of three records, two of them the same record.
C2_Witness ==
    \E h \in Handlers :
        /\ lastRender = h
        /\ Len(input[h].teams) = 3
        /\ input[h].teams[1] = input[h].teams[2]
        /\ Len(tbody) = 3

\* C3: the sort of the script.js handlers is stable: for every rating, the
\* rows with that rating are the input teams with that rating, in input
\* order; and the input A:1400, B:1600, C:1600 renders B, C, A with ranks
\* 1, 2, 3.
C3_StableSort ==
    \A h \in ScriptHandlers :
        lastRender = h =>
            /\ \A e \in {t.elo : t \in TeamPool} :
                   LET RowHasElo(r)  == RatingTenths(r.rating) = e
                       TeamHasElo(t) == t.elo = e
                       rows == SelectSeq(tbody, RowHasElo)
                       ins  == SelectSeq(input[h].teams, TeamHasElo)
                   IN  [i \in 1..Len(rows) |-> rows[i].team]
                         = [i \in 1..Len(ins) |-> TeamCell(h, ins[i])]
            /\ input[h].teams = <<TeamA, TeamB, TeamC>> =>
                   /\ [i \in 1..Len(tbody) |-> Last(tbody[i].team)]
                        = Chars(<<"B", "C", "A">>)
                   /\ [i \in 1..Len(tbody) |-> tbody[i].rank] = <<1, 2, 3>>

\* C3 witness: a script.js handler has rendered the input A, B, C.
C3_Witness ==
    \E h \in ScriptHandlers :
        lastRender = h /\ input[h].teams = <<TeamA, TeamB, TeamC>> /\ Len(tbody) = 3

\* C4: the done callback of a join has run exactly when both of its fetches
\* have succeeded, and never when one of them has failed.
C4_RenderOnlyAfterBoth ==
    \A h \in Handlers :
        /\ rendered[h] \in {0, 1}
        /\ rendered[h] = 1 <=> \A f \in Files : fetch[h][f] = "ok"
        /\ (\E f \in Files : fetch[h][f] = "failed") => rendered[h] = 0

\* C4 witness: a join rendered after stats.json arrived first, and another
\* join lost a fetch after one response had arrived.
C4_Witness ==
    /\ rendered["lookup"] = 1
    /\ arrival["lookup"] = <<"stats", "teams">>
    /\ fetch["algo"] = [f \in Files |-> IF f = "teams" THEN "ok" ELSE "failed"]
    /\ arrival["algo"] = <<"teams", "stats">>

\* What C5 says of a step in which a join fails.
C5_FailStep ==
    \A h \in Handlers :
        (join[h] = "pending" /\ join'[h] = "rejected") =>
            /\ errorLog'[h] = errorLog[h] + 1
            /\ \A g \in Handlers \ {h} : errorLog'[g] = errorLog[g]
            /\ UNCHANGED <<last_update, tsText, tbody, issued, rendered, teams, stats>>

\* C5: a failing join logs one error and nothing else: the timestamp text
\* and the table body stay as they were, each fetch is issued once and never
\* again, and a join logs at most once.
C5_FailureOnlyLogs ==
    /\ [][C5_FailStep]_vars
    /\ [](\A h \in Handlers :
            /\ \A f \in Files : issued[h][f] = (IF pc[h] = "started" THEN 1 ELSE 0)
            /\ errorLog[h] = (IF join[h] = "rejected" THEN 1 ELSE 0))

\* C5 witness: both fetches of a join failed while the table held the rows
\* of another join's render.
C5_Witness ==
    /\ join["algo"] = "rejected"
    /\ \A f \in Files : fetch["algo"][f] = "failed"
    /\ errorLog["algo"] = 1
    /\ lastRender = "lookup"
    /\ Len(tbody) > 0

\* C6 as first stated: a render leaves its inputs as they were, the teams
\* array holding the same records in the same order, the stats unchanged.
C6_InputsUntouched ==
    \A h \in Handlers :
        rendered[h] = 1 => teams[h] = input[h].teams /\ stats[h] = input[h].stats

\* out holds the records of in, by descending elo, equal elos in input order.
StableDescending(in, out) ==
    /\ Len(out) = Len(in)
    /\ \E p \in Bijections(Len(in)) :
           /\ \A i \in 1..Len(in) : out[i] = in[p[i]]
           /\ \A i, j \in 1..Len(in) :
                  i < j => \/ out[i].elo > out[j].elo
                           \/ out[i].elo = out[j].elo /\ p[i] < p[j]

\* C6, amended: a render changes no team record and not the stats record;
\* the script.js handlers sort the teams array in place, so that afterwards
\* it holds the same records by descending elo, equal elos in input order;
\* the handler of part_000 leaves the array as it was.
C6_RecordsKeptArraySorted ==
    \A h \in Handlers :
        rendered[h] = 1 =>
            /\ stats[h] = input[h].stats
            /\ IF h \in ScriptHandlers
               THEN StableDescending(input[h].teams, teams[h])
               ELSE teams[h] = input[h].teams

\* C6 witness: a script.js render has reordered its teams array.
C6_Witness ==
    \E h \in ScriptHandlers :
        /\ rendered[h] = 1
        /\ teams[h] # input[h].teams
        /\ Len(teams[h]) = 3

\* C7: getCountryFlag gives the table's glyph and a space when the part of
\* the id before the first '_' is a key of countryFlags, and the empty
\* prefix for every other code and for a missing or empty id.
C7_LookupFlag ==
    flagFn = "getCountryFlag" =>
        flagOutput =
            IF flagInput.type # "string" \/ flagInput.chars = <<>> THEN <<>>
            ELSE IF SplitFirst(flagInput.chars) \in countryFlagsKeys
            THEN countryFlags(SplitFirst(flagInput.chars)) \o <<Space>>
            ELSE <<>>

IsLetter(c) == (c >= 65 /\ c <= 90) \/ (c >= 97 /\ c <= 122)

\* C8: countryCodeToFlag gives, for a code of exactly two letters, the two
\* regional indicators 0x1F1E6 + the letters' alphabetic positions, both in
\* 0x1F1E6..0x1F1FF, and the empty prefix for null, a missing code and
\* every code that is not exactly two letters.
C8_AlgorithmicFlag ==
    flagFn = "countryCodeToFlag" =>
        IF /\ flagInput.type = "string"
           /\ Len(flagInput.chars) = 2
           /\ \A i \in 1..2 : IsLetter(flagInput.chars[i])
        THEN /\ flagOutput = [i \in 1..2 |-> 127462 + (UpperCp(flagInput.chars[i]) - 65)]
             /\ \A i \in 1..2 : flagOutput[i] >= 127462 /\ flagOutput[i] <= 127487
        ELSE flagOutput = <<>>

\* C9: the render is idempotent: the done callback run again on what a
\* render left (the array, the stats, the page) leaves exactly that; and the
\* table holds the rows of the last render only.
C9_RenderIdempotent ==
    \A h \in Handlers :
        lastRender = h =>
            LET again == DoneCallback(h, teams[h], stats[h], tbody)
            IN  /\ again.tbody = tbody
                /\ again.tsText = tsText
                /\ again.last_update = last_update
                /\ again.teams = teams[h]
                /\ Len(tbody) = Len(teams[h])

\* C9 witness: a render onto the rows an earlier render left.
C9_Witness ==
    /\ lastRender = "algo"
    /\ rendered["lookup"] = 1
    /\ Len(shown["lookup"].tbody) = 3
    /\ Len(tbody) = 3

\* C10: when both joins of script.js have rendered the same data, the page
\* is the same whichever rendered last: what the lookup handler left and
\* what the algorithmic handler left are equal.
C10_OrderIndependent ==
    (rendered["lookup"] = 1 /\ rendered["algo"] = 1 /\ input["lookup"] = input["algo"])
        => shown["lookup"] = shown["algo"]

=============================================================================
